---- MODULE Spec2Model ----
(***************************************************************************)
(* ReWear (src/App.js): the listing / points state kept in the hosted      *)
(* document store, and the React handlers that read and write it.          *)
(*                                                                         *)
(* A "session" is one browser tab running <App/>.  The store (items and    *)
(* users collections) is shared by all sessions.  Every handler of the     *)
(* source is one action; a handler that awaits a store read is split at    *)
(* the await, so that other sessions can run in between.                   *)
(***************************************************************************)
EXTENDS Integers, Sequences, FiniteSets, TLC

\* ---------------------------------------------------------------- bounds
MaxBalance == 1        \* largest points balance a profile starts with
MaxPointsValue == 1    \* largest number typed in the Points Value field
MaxListeners == 3      \* most listeners of one query a session registers
MaxUpload == 3         \* most files picked in one go in the image input

\* ------------------------------------------------------------- JS values
\* null and undefined where an object or a number is expected; a number n is
\* Num(n), so that null, undefined and NaN can stand where a number can
NULL == [t |-> "null"]
UNDEFINED == [t |-> "undefined"]
NaN == [t |-> "NaN"]
Num(n) == [t |-> "number", v |-> n]
NoDoc == [exists |-> FALSE]       \* a snapshot whose exists() is false
NullUser == "null"                \* userId / currentUserId null
UndefinedUser == "undefined"      \* the userId field of a document without one
NullId == "null"                  \* selectedItemId null

\* Two browser tabs.  s1 is used by the people holding the accounts u1 and u2
\* and goes wherever the header and the pages lead; s2 is the administrator's
\* tab, used for the admin panel.
Sessions == {"s1", "s2"}
Users == {"u1", "u2", "admin1"}
Accounts(s) == IF s = "s1" THEN {"u1", "u2"} ELSE {"admin1"}
ItemIds == {"i1"}                 \* the document ids addDoc can hand out
Pages == {"landing", "browse", "itemDetail", "addItem", "dashboard", "admin", "auth"}
Visits(s) == IF s = "s1" THEN Pages ELSE {"landing", "admin"}

\* userId.includes('admin')
IsAdmin(uid) == uid = "admin1"

\* ------------------------------------------------- parseInt(string, 10)
DigitChars == <<"0", "1", "2", "3", "4", "5", "6", "7", "8", "9">>

IsDigit(c) == \E d \in 1 .. 10 : DigitChars[d] = c

DigitVal(c) == (CHOOSE d \in 1 .. 10 : DigitChars[d] = c) - 1

RECURSIVE ParseDigits(_, _, _)
ParseDigits(str, i, acc) ==
  IF i > Len(str) \/ ~IsDigit(str[i]) THEN acc
  ELSE ParseDigits(str, i + 1, acc * 10 + DigitVal(str[i]))

ParseInt(str) ==
  LET neg == Len(str) > 0 /\ str[1] = "-"
      start == IF neg THEN 2 ELSE 1
  IN IF start > Len(str) \/ ~IsDigit(str[start]) THEN NaN
     ELSE IF neg THEN Num(0 - ParseDigits(str, start, 0))
     ELSE Num(ParseDigits(str, start, 0))

RECURSIVE IntToStr(_)
IntToStr(n) ==
  IF n < 10 THEN <<DigitChars[n + 1]>>
  ELSE IntToStr(n \div 10) \o <<DigitChars[(n % 10) + 1]>>

\* what the <input type="number"> of the listing form can hold
PointsInputs == {<<>>, <<"-", "1">>} \cup {IntToStr(n) : n \in 0 .. MaxPointsValue}

\* JS truthiness of a stored value
Truthy(x) == x.t = "number" /\ x.v # 0

\* ---------------------------------------------------------------- state
VARIABLES
  items,              \* artifacts/{appId}/public/data/items: id -> document
  users,              \* artifacts/{appId}/users: uid -> document
  userId,             \* App state userId, per session
  currentPage,        \* App state currentPage
  selectedItemId,     \* App state selectedItemId
  messageBox,         \* the latest showMessageBox call: its session, message, type
  item,               \* ItemDetailPage state item
  loading,            \* ItemDetailPage state loading
  showConfirmSwap,    \* ItemDetailPage state
  showConfirmRedeem,  \* ItemDetailPage state
  ensure,             \* the profile-ensuring setDoc calls of the session in flight
  pageState,          \* the state of the page component mounted in the session
  subs,               \* the onSnapshot listeners of the session not unsubscribed
  lastError           \* the latest store call that was answered with an error

vars == <<items, users, userId, currentPage, selectedItemId, messageBox, item,
          loading, showConfirmSwap, showConfirmRedeem, ensure, pageState, subs,
          lastError>>

storeVars == <<items, users>>
appVars == <<userId, currentPage, selectedItemId>>
detailVars == <<item, loading, showConfirmSwap, showConfirmRedeem>>
pageVars == <<pageState, subs, lastError>>

\* the state a page component other than ItemDetailPage is mounted with:
\* effectRun says that the page's useEffect has run to its end, items is the
\* items of BrowseItemsPage, listings the listings of AdminPanelPage, images
\* the images of AddItemPage, pending the newItem of the addDoc that
\* handleSubmit awaits (AddItemPage's loading is true exactly meanwhile)
InitPage ==
  [effectRun |-> FALSE, items |-> {}, listings |-> {}, images |-> <<>>,
   pending |-> NULL]

\* no listener registered
NoSubs == [browse |-> 0, dashboard |-> 0]

\* showMessageBox(message, type) in session s; arg is the value the message
\* text is built with (points, listing id, user id), NULL when there is none
Shown(s, m, t, arg) == [session |-> s, message |-> m, type |-> t, arg |-> arg]

showMessageBox(s, m, t) == messageBox' = Shown(s, m, t, NULL)

\* the error.code values a rejected store call is given here: the one the
\* handlers single out, and one of the others
ErrorCodes == {"permission-denied", "unavailable"}

\* the two branches of the handlers' catch blocks: the Permission Denied text
\* for error.code === 'permission-denied', else m with error.message
showError(s, m, code) ==
  messageBox' = Shown(s, IF code = "permission-denied" THEN "Permission Denied" ELSE m,
                      "error", [t |-> "code", v |-> code])

\* the store answers the call of session s with an error
Rejected(s, call, code) ==
  lastError' = [session |-> s, call |-> call, code |-> code]

Init ==
  /\ items = [i \in ItemIds |-> NoDoc]
  /\ users \in [Users -> {NoDoc} \cup [exists : {TRUE}, points : 0 .. MaxBalance]]
  \* the administrator has signed in before: the profile of that sign-in
  /\ users["admin1"] = [exists |-> TRUE, points |-> 0]
  /\ userId = [s \in Sessions |-> NullUser]
  /\ currentPage = [s \in Sessions |-> "landing"]
  /\ selectedItemId = [s \in Sessions |-> NullId]
  /\ messageBox = NULL
  /\ item = [s \in Sessions |-> NULL]
  /\ loading = [s \in Sessions |-> TRUE]
  /\ showConfirmSwap = [s \in Sessions |-> FALSE]
  /\ showConfirmRedeem = [s \in Sessions |-> FALSE]
  /\ ensure = [s \in Sessions |-> {}]
  /\ pageState = [s \in Sessions |-> InitPage]
  /\ subs = [s \in Sessions |-> NoSubs]
  /\ lastError = NULL

\* ------------------------------------------------------ document helpers
\* { id: snap.id, ...snap.data() }
ItemData(id) ==
  [id |-> id, userId |-> items[id].userId, status |-> items[id].status,
   pointsValue |-> items[id].pointsValue]

\* mutant of MergeStatus: setDoc without { merge: true } replaces the document
MergeStatusNoMerge(d, st) ==
  [exists |-> TRUE, userId |-> UndefinedUser, status |-> st,
   pointsValue |-> UNDEFINED]

\* setDoc(ref, { status }, { merge: true })
MergeStatus(d, st) ==
  IF d = NoDoc
  THEN [exists |-> TRUE, userId |-> UndefinedUser, status |-> st,
        pointsValue |-> UNDEFINED]
  ELSE [d EXCEPT !.status = st]

\* setDoc(ref, { email, points: 0, memberSince }, { merge: true })
MergeProfile(d) ==
  IF d = NoDoc THEN [exists |-> TRUE, points |-> 0] ELSE [d EXCEPT !.points = 0]

\* ItemDetailPage is mounted and renders the item view (lines 568-574)
ItemViewRendered(s) ==
  currentPage[s] = "itemDetail" /\ ~loading[s] /\ item[s] # NULL

\* the Swap Request / Redeem via Points buttons are on the page:
\* !isOwner && item.status === 'available'
ActionButtonsRendered(s) ==
  /\ ItemViewRendered(s)
  /\ userId[s] # item[s].userId
  /\ item[s].status = "available"

\* the ItemDetailPage of session s goes away: its state is dropped
UnmountItemDetail(s) ==
  /\ item' = [item EXCEPT ![s] = NULL]
  /\ loading' = [loading EXCEPT ![s] = TRUE]
  /\ showConfirmSwap' = [showConfirmSwap EXCEPT ![s] = FALSE]
  /\ showConfirmRedeem' = [showConfirmRedeem EXCEPT ![s] = FALSE]

\* mutant of handleNavigate: the else branch setSelectedItemId(null) is missing
handleNavigateKeepsId(s, page, itemId) ==
  /\ page = "itemDetail" => (currentPage[s] # "itemDetail" /\ itemId \in ItemIds)
  /\ page # "itemDetail" => itemId = NullId
  /\ currentPage[s] # page
  /\ currentPage' = [currentPage EXCEPT ![s] = page]
  /\ selectedItemId' = [selectedItemId EXCEPT ![s] =
       IF page = "itemDetail" /\ itemId # NullId THEN itemId ELSE @]
  /\ IF currentPage[s] = "itemDetail"
     THEN UnmountItemDetail(s)
     ELSE UNCHANGED detailVars
  /\ pageState' = [pageState EXCEPT ![s] = InitPage]
  /\ UNCHANGED <<storeVars, userId, messageBox, ensure, subs, lastError>>
\* ----------------------------------------------------------------- App
\* handleNavigate(page, params), with the arguments its call sites pass:
\* 'itemDetail' comes with an item id from a list on another page
handleNavigate(s, page, itemId) ==
  /\ page = "itemDetail" => (currentPage[s] # "itemDetail" /\ itemId \in ItemIds)
  /\ page # "itemDetail" => itemId = NullId
  /\ currentPage[s] # page
  /\ currentPage' = [currentPage EXCEPT ![s] = page]
  /\ selectedItemId' = [selectedItemId EXCEPT ![s] =
       IF page = "itemDetail" /\ itemId # NullId THEN itemId ELSE NullId]
  /\ IF currentPage[s] = "itemDetail"
     THEN UnmountItemDetail(s)
     ELSE UNCHANGED detailVars
  /\ pageState' = [pageState EXCEPT ![s] = InitPage]
  /\ UNCHANGED <<storeVars, userId, messageBox, ensure, subs, lastError>>

\* setUserId renders App again: case 'admin' of renderPage mounts or unmounts
\* the panel, and on every page showMessage and onNavigate are new functions,
\* so that an effect depending on them (or on currentUserId) runs again
UserChanged(s) ==
  pageState' = [pageState EXCEPT ![s] =
    IF currentPage[s] = "admin" THEN InitPage
    ELSE [@ EXCEPT !.effectRun = FALSE]]

\* mutant of onAuthStateChanged: the userDocSnap.exists() check is missing
onAuthStateChangedNoExistsCheck(s, user) ==
  /\ user # userId[s]
  /\ ensure[s] = {}
  /\ userId' = [userId EXCEPT ![s] = user]
  /\ ensure' = [ensure EXCEPT ![s] = IF user # NullUser THEN {"auth"} ELSE {}]
  /\ UserChanged(s)
  /\ UNCHANGED <<storeVars, currentPage, selectedItemId, messageBox, detailVars,
                 subs, lastError>>

\* onAuthStateChanged callback: setUserId, and getDoc(userDocRef) reads the
\* store; without a document the setDoc is issued, not yet applied.  The
\* profile-ensuring writes in flight in a session are all about userId[s].
onAuthStateChanged(s, user) ==
  /\ user # userId[s]
  /\ ensure[s] = {}
  /\ userId' = [userId EXCEPT ![s] = user]
  /\ ensure' = [ensure EXCEPT ![s] =
       IF user # NullUser /\ ~users[user].exists THEN {"auth"} ELSE {}]
  /\ UserChanged(s)
  /\ UNCHANGED <<storeVars, currentPage, selectedItemId, messageBox, detailVars,
                 subs, lastError>>

\* onAuthStateChanged callback when its getDoc(userDocRef) is rejected: the
\* catch shows a message for permission-denied and for nothing else
onAuthStateChangedRejected(s, user, code) ==
  /\ user # userId[s]
  /\ user # NullUser
  /\ ensure[s] = {}
  /\ userId' = [userId EXCEPT ![s] = user]
  /\ UserChanged(s)
  /\ Rejected(s, "getDoc(userDocRef)", code)
  /\ IF code = "permission-denied"
     THEN showError(s, "", code)
     ELSE UNCHANGED messageBox
  /\ UNCHANGED <<storeVars, currentPage, selectedItemId, detailVars, ensure, subs>>

\* a profile-ensuring setDoc is rejected.  Its promise is dropped on both
\* paths: in the auth listener it is not returned from the then callback, so
\* the catch after it does not see it, and the dashboard's has no catch.
ensureProfileWriteRejected(s, code) ==
  \E path \in ensure[s] :
    /\ ensure' = [ensure EXCEPT ![s] = @ \ {path}]
    /\ Rejected(s, "setDoc(userDocRef)", code)
    /\ UNCHANGED <<storeVars, appVars, messageBox, detailVars, pageState, subs>>

\* the setDoc(..., { merge: true }) of a profile-ensuring path reaches the store
ensureProfileWrite(s) ==
  \E path \in ensure[s] :
    /\ users' = [users EXCEPT ![userId[s]] = MergeProfile(@)]
    /\ ensure' = [ensure EXCEPT ![s] = @ \ {path}]
    /\ UNCHANGED <<items, appVars, messageBox, detailVars, pageVars>>

\* UserDashboardPage: the profile listener gets a snapshot without a document
dashboardProfileSnapshot(s) ==
  /\ currentPage[s] = "dashboard"
  /\ userId[s] # NullUser
  /\ "dashboard" \notin ensure[s]
  /\ ~users[userId[s]].exists
  /\ ensure' = [ensure EXCEPT ![s] = @ \cup {"dashboard"}]
  /\ UNCHANGED <<storeVars, appVars, messageBox, detailVars, pageVars>>

\* onNavigate(page) called from inside an ItemDetailPage handler
LeaveItemDetail(s, page) ==
  /\ currentPage' = [currentPage EXCEPT ![s] = page]
  /\ selectedItemId' = [selectedItemId EXCEPT ![s] = NullId]
  /\ UnmountItemDetail(s)

\* ------------------------------------------------------- BrowseItemsPage
\* mutant of AvailableDocs: the query has no where("status", "==", "available")
AvailableDocsAnyStatus(coll) == {id \in ItemIds : coll[id].exists}

\* the documents of query(itemsCollectionRef, where("status", "==", "available"))
AvailableDocs(coll) ==
  {id \in ItemIds : coll[id].exists /\ coll[id].status = "available"}

\* the effect of BrowseItemsPage: fetchItems registers the listener.  The
\* cleanup is what the async fetchItems returns, so the effect itself
\* returns nothing and React has nothing to call when the page goes away.
fetchItems(s) ==
  /\ currentPage[s] = "browse"
  /\ ~pageState[s].effectRun
  /\ subs[s].browse < MaxListeners
  /\ subs' = [subs EXCEPT ![s].browse = @ + 1]
  /\ pageState' = [pageState EXCEPT ![s].effectRun = TRUE]
  /\ UNCHANGED <<storeVars, appVars, messageBox, detailVars, ensure, lastError>>

\* the listener of the mounted BrowseItemsPage gets a snapshot of the query
browseSnapshot(s) ==
  /\ currentPage[s] = "browse"
  /\ pageState[s].effectRun
  /\ pageState' = [pageState EXCEPT ![s].items = AvailableDocs(items)]
  /\ UNCHANGED <<storeVars, appVars, messageBox, detailVars, ensure, subs,
                 lastError>>

\* ----------------------------------------------------- UserDashboardPage
\* the effect of UserDashboardPage: without a user it returns at once, with
\* one fetchDashboardData registers the profile and the listings listener;
\* its cleanup too is returned by the async function, not by the effect
fetchDashboardData(s) ==
  /\ currentPage[s] = "dashboard"
  /\ ~pageState[s].effectRun
  /\ IF userId[s] = NullUser
     THEN UNCHANGED subs
     ELSE /\ subs[s].dashboard + 2 <= MaxListeners
          /\ subs' = [subs EXCEPT ![s].dashboard = @ + 2]
  /\ pageState' = [pageState EXCEPT ![s].effectRun = TRUE]
  /\ UNCHANGED <<storeVars, appVars, messageBox, detailVars, ensure, lastError>>

\* ------------------------------------------------------- ItemDetailPage
\* the effect's fetchItemDetails, from its getDoc(itemDocRef) to its end
fetchItemDetails(s) ==
  /\ currentPage[s] = "itemDetail"
  /\ selectedItemId[s] # NullId
  /\ loading[s]
  /\ LET id == selectedItemId[s] IN
     IF items[id].exists
     THEN /\ item' = [item EXCEPT ![s] = ItemData(id)]
          /\ loading' = [loading EXCEPT ![s] = FALSE]
          \* doc(db, path, undefined) throws: the catch shows the error
          /\ IF items[id].userId = UndefinedUser
             THEN showMessageBox(s, "Error loading item details", "error")
             ELSE UNCHANGED messageBox
          /\ UNCHANGED <<currentPage, selectedItemId, showConfirmSwap,
                         showConfirmRedeem>>
     ELSE /\ showMessageBox(s, "Item not found.", "error")
          /\ LeaveItemDetail(s, "browse")
  /\ UNCHANGED <<storeVars, userId, ensure, pageVars>>

\* fetchItemDetails when its getDoc(itemDocRef) is rejected: catch, finally
fetchItemDetailsRejected(s, code) ==
  /\ currentPage[s] = "itemDetail"
  /\ selectedItemId[s] # NullId
  /\ loading[s]
  /\ loading' = [loading EXCEPT ![s] = FALSE]
  /\ showError(s, "Error loading item details", code)
  /\ Rejected(s, "getDoc(itemDocRef)", code)
  /\ UNCHANGED <<storeVars, appVars, item, showConfirmSwap, showConfirmRedeem,
                 ensure, pageState, subs>>

\* mutant of handleSwapRequest: the owner check of lines 494-497 is missing
handleSwapRequestNoOwnerCheck(s) ==
  /\ ItemViewRendered(s)
  /\ IF userId[s] = NullUser
     THEN /\ showMessageBox(s, "Please log in to request a swap.", "info")
          /\ LeaveItemDetail(s, "auth")
     ELSE /\ showConfirmSwap' = [showConfirmSwap EXCEPT ![s] = TRUE]
          /\ UNCHANGED <<currentPage, selectedItemId, messageBox, item, loading,
                         showConfirmRedeem>>
  /\ UNCHANGED <<storeVars, userId, ensure, pageVars>>

handleSwapRequest(s) ==
  /\ ItemViewRendered(s)
  /\ IF userId[s] = NullUser
     THEN /\ showMessageBox(s, "Please log in to request a swap.", "info")
          /\ LeaveItemDetail(s, "auth")
     ELSE IF userId[s] = item[s].userId
     THEN /\ showMessageBox(s, "You cannot swap your own item.", "info")
          /\ UNCHANGED <<currentPage, selectedItemId, detailVars>>
     ELSE /\ showConfirmSwap' = [showConfirmSwap EXCEPT ![s] = TRUE]
          /\ UNCHANGED <<currentPage, selectedItemId, messageBox, item, loading,
                         showConfirmRedeem>>
  /\ UNCHANGED <<storeVars, userId, ensure, pageVars>>

\* the 'swaps' collection of swap-request documents that the comment of
\* confirmSwap speaks of: the program has no such collection and no handler
\* writes a swap request anywhere, so it holds nothing
swaps == {}

confirmSwap(s) ==
  /\ ItemViewRendered(s)
  /\ showConfirmSwap[s]
  /\ showConfirmSwap' = [showConfirmSwap EXCEPT ![s] = FALSE]
  /\ showMessageBox(s, "Swap request sent successfully!", "success")
  /\ UNCHANGED <<storeVars, appVars, item, loading, showConfirmRedeem, ensure,
                 pageVars>>

\* the swap confirmation's onClose
cancelSwap(s) ==
  /\ ItemViewRendered(s)
  /\ showConfirmSwap[s]
  /\ showConfirmSwap' = [showConfirmSwap EXCEPT ![s] = FALSE]
  /\ UNCHANGED <<storeVars, appVars, messageBox, item, loading,
                 showConfirmRedeem, ensure, pageVars>>

\* mutant of EnoughPoints: the comparison is off by one
EnoughPointsOffByOne(userSnap, pointsValue) ==
  userSnap.exists /\ ~(userSnap.points + 1 < pointsValue.v)

\* userSnap.exists() && !(userSnap.data().points < item.pointsValue)
EnoughPoints(userSnap, pointsValue) ==
  userSnap.exists /\ ~(userSnap.points < pointsValue.v)

\* mutant of handleRedeemPoints: the owner check of lines 525-528 is missing
handleRedeemPointsNoOwnerCheck(s) ==
  /\ ItemViewRendered(s)
  /\ IF userId[s] = NullUser
     THEN /\ showMessageBox(s, "Please log in to redeem points.", "info")
          /\ LeaveItemDetail(s, "auth")
     ELSE IF ~Truthy(item[s].pointsValue)
     THEN /\ showMessageBox(s, "This item is not available for point redemption.", "info")
          /\ UNCHANGED <<currentPage, selectedItemId, detailVars>>
     ELSE IF ~EnoughPoints(users[userId[s]], item[s].pointsValue)
     THEN /\ showMessageBox(s, "Not enough points to redeem this item.", "error")
          /\ UNCHANGED <<currentPage, selectedItemId, detailVars>>
     ELSE /\ showConfirmRedeem' = [showConfirmRedeem EXCEPT ![s] = TRUE]
          /\ UNCHANGED <<currentPage, selectedItemId, messageBox, item, loading,
                         showConfirmSwap>>
  /\ UNCHANGED <<storeVars, userId, ensure, pageVars>>

\* handleRedeemPoints; its getDoc(userDocRef) reads the store as the handler runs
handleRedeemPoints(s) ==
  /\ ItemViewRendered(s)
  /\ IF userId[s] = NullUser
     THEN /\ showMessageBox(s, "Please log in to redeem points.", "info")
          /\ LeaveItemDetail(s, "auth")
     ELSE IF userId[s] = item[s].userId
     THEN /\ showMessageBox(s, "You cannot redeem points for your own item.", "info")
          /\ UNCHANGED <<currentPage, selectedItemId, detailVars>>
     ELSE IF ~Truthy(item[s].pointsValue)
     THEN /\ showMessageBox(s, "This item is not available for point redemption.", "info")
          /\ UNCHANGED <<currentPage, selectedItemId, detailVars>>
     ELSE IF ~EnoughPoints(users[userId[s]], item[s].pointsValue)
     THEN /\ showMessageBox(s, "Not enough points to redeem this item.", "error")
          /\ UNCHANGED <<currentPage, selectedItemId, detailVars>>
     ELSE /\ showConfirmRedeem' = [showConfirmRedeem EXCEPT ![s] = TRUE]
          /\ UNCHANGED <<currentPage, selectedItemId, messageBox, item, loading,
                         showConfirmSwap>>
  /\ UNCHANGED <<storeVars, userId, ensure, pageVars>>

\* handleRedeemPoints when its getDoc(userDocRef) is rejected: the await is
\* in no try block, the handler's promise is rejected and nobody handles it
handleRedeemPointsRejected(s, code) ==
  /\ ItemViewRendered(s)
  /\ userId[s] # NullUser
  /\ userId[s] # item[s].userId
  /\ Truthy(item[s].pointsValue)
  /\ Rejected(s, "getDoc(userDocRef)", code)
  /\ UNCHANGED <<storeVars, appVars, messageBox, detailVars, ensure, pageState,
                 subs>>

\* `Successfully redeemed ${item.pointsValue} points for this item!`
RedeemedMsg(s, pointsValue) ==
  Shown(s, "Successfully redeemed points for this item!", "success", pointsValue)

\* mutant of confirmRedeem: the two updateDoc calls of lines 553-558 are
\* live, each a plain write with no check of what the store holds by then
confirmRedeemDebits(s) ==
  /\ ItemViewRendered(s)
  /\ showConfirmRedeem[s]
  /\ showConfirmRedeem' = [showConfirmRedeem EXCEPT ![s] = FALSE]
  /\ IF userId[s] \in Users /\ users[userId[s]].exists /\ items[item[s].id].exists
     THEN /\ users' = [users EXCEPT ![userId[s]].points = @ - item[s].pointsValue.v]
          /\ items' = [items EXCEPT ![item[s].id].status = "redeemed"]
          /\ messageBox' = RedeemedMsg(s, item[s].pointsValue)
     ELSE /\ showMessageBox(s, "Failed to redeem item", "error")
          /\ UNCHANGED storeVars
  /\ UNCHANGED <<appVars, item, loading, showConfirmSwap, ensure, pageVars>>

confirmRedeem(s) ==
  /\ ItemViewRendered(s)
  /\ showConfirmRedeem[s]
  /\ showConfirmRedeem' = [showConfirmRedeem EXCEPT ![s] = FALSE]
  /\ messageBox' = RedeemedMsg(s, item[s].pointsValue)
  /\ UNCHANGED <<storeVars, appVars, item, loading, showConfirmSwap, ensure,
                 pageVars>>

\* the redeem confirmation's onClose
cancelRedeem(s) ==
  /\ ItemViewRendered(s)
  /\ showConfirmRedeem[s]
  /\ showConfirmRedeem' = [showConfirmRedeem EXCEPT ![s] = FALSE]
  /\ UNCHANGED <<storeVars, appVars, messageBox, item, loading,
                 showConfirmSwap, ensure, pageVars>>

\* ----------------------------------------------------------- AddItemPage
MaxImages == 5         \* the 5 of files.length + images.length > 5

\* the files the image input can hand over; URL.createObjectURL(file) is
\* modelled by the file's name
Files == {"a", "b"}

FileLists == UNION {[1 .. n -> Files] : n \in 1 .. MaxUpload}

\* mutant of TooManyImages: the limit is off by one
TooManyImagesOffByOne(files, imgs) == Len(files) + Len(imgs) > MaxImages + 1

\* files.length + images.length > 5
TooManyImages(files, imgs) == Len(files) + Len(imgs) > MaxImages

handleImageUpload(s, files) ==
  /\ currentPage[s] = "addItem"
  /\ IF TooManyImages(files, pageState[s].images)
     THEN /\ showMessageBox(s, "You can upload a maximum of 5 images.", "error")
          /\ UNCHANGED pageState
     ELSE /\ pageState' = [pageState EXCEPT ![s].images = @ \o files]
          /\ UNCHANGED messageBox
  /\ UNCHANGED <<storeVars, appVars, detailVars, ensure, subs, lastError>>

\* prevImages.filter((_, index) => index !== indexToRemove), index from 0
RECURSIVE FilterIndex(_, _, _)
FilterIndex(imgs, index, indexToRemove) ==
  IF imgs = <<>> THEN <<>>
  ELSE (IF index # indexToRemove THEN <<Head(imgs)>> ELSE <<>>)
         \o FilterIndex(Tail(imgs), index + 1, indexToRemove)

\* handleRemoveImage(index) of the remove button of image number index
handleRemoveImage(s, indexToRemove) ==
  /\ currentPage[s] = "addItem"
  /\ indexToRemove \in 0 .. Len(pageState[s].images) - 1
  /\ pageState' = [pageState EXCEPT ![s].images = FilterIndex(@, 0, indexToRemove)]
  /\ UNCHANGED <<storeVars, appVars, messageBox, detailVars, ensure, subs,
                 lastError>>

\* mutant of NewItem: the default status is not 'available'
NewItemPending(uid, pointsValue) ==
  [exists |-> TRUE, userId |-> uid, status |-> "pending_swap",
   pointsValue |-> IF Len(pointsValue) > 0 THEN ParseInt(pointsValue) ELSE NULL]

\* newItem of handleSubmit; pointsValue is the text of the form field
NewItem(uid, pointsValue) ==
  [exists |-> TRUE, userId |-> uid, status |-> "available",
   pointsValue |-> IF Len(pointsValue) > 0 THEN ParseInt(pointsValue) ELSE NULL]

\* mutant of handleSubmit: the !currentUserId check of lines 759-763 is missing
handleSubmitNoUserCheck(s, pointsValue) ==
  /\ currentPage[s] = "addItem"
  /\ pageState[s].pending = NULL
  /\ \E id \in ItemIds :
       /\ ~items[id].exists
       /\ items' = [items EXCEPT ![id] = NewItem(userId[s], pointsValue)]
       /\ showMessageBox(s, "Item listed successfully!", "success")
       /\ currentPage' = [currentPage EXCEPT ![s] = "dashboard"]
  /\ pageState' = [pageState EXCEPT ![s] = InitPage]
  /\ UNCHANGED <<users, userId, selectedItemId, detailVars, ensure, subs,
                 lastError>>
\* the submit button is disabled while loading
handleSubmit(s, pointsValue) ==
  /\ currentPage[s] = "addItem"
  /\ pageState[s].pending = NULL
  /\ IF userId[s] = NullUser
     THEN /\ showMessageBox(s, "You must be logged in to list an item.", "error")
          /\ currentPage' = [currentPage EXCEPT ![s] = "auth"]
          /\ UNCHANGED items
     ELSE \E id \in ItemIds :
          /\ ~items[id].exists          \* addDoc picks an unused id
          /\ items' = [items EXCEPT ![id] = NewItem(userId[s], pointsValue)]
          /\ showMessageBox(s, "Item listed successfully!", "success")
          /\ currentPage' = [currentPage EXCEPT ![s] = "dashboard"]
  /\ pageState' = [pageState EXCEPT ![s] = InitPage]
  /\ UNCHANGED <<users, userId, selectedItemId, detailVars, ensure, subs,
                 lastError>>

\* handleSubmit when its addDoc is rejected: catch, finally
handleSubmitRejected(s, pointsValue, code) ==
  /\ currentPage[s] = "addItem"
  /\ pageState[s].pending = NULL
  /\ userId[s] # NullUser
  /\ showError(s, "Failed to list item", code)
  /\ Rejected(s, "addDoc(itemsCollectionRef)", code)
  /\ UNCHANGED <<storeVars, appVars, detailVars, ensure, pageState, subs>>

\* handleSubmit up to its await addDoc, on a store that does not answer:
\* setLoading(true) has run, and the catch and the finally wait for the
\* promise; no timer is set anywhere
handleSubmitPending(s, pointsValue) ==
  /\ currentPage[s] = "addItem"
  /\ pageState[s].pending = NULL
  /\ userId[s] # NullUser
  /\ pageState' = [pageState EXCEPT ![s].pending = NewItem(userId[s], pointsValue)]
  /\ UNCHANGED <<storeVars, appVars, messageBox, detailVars, ensure, subs,
                 lastError>>

\* -------------------------------------------------------- AdminPanelPage
\* mutant of AdminPanelRendered: the userId.includes('admin') test is missing
AdminPanelRenderedAnyUser(s) ==
  currentPage[s] = "admin" /\ userId[s] # NullUser

\* renderPage case 'admin': the panel is mounted
AdminPanelRendered(s) ==
  currentPage[s] = "admin" /\ userId[s] # NullUser /\ IsAdmin(userId[s])

ModeratedStatus(action) == IF action = "approve" THEN "available" ELSE "rejected"

\* `Listing ${listingId} ${action === 'approve' ? 'approved' : 'rejected'} successfully!`
ModeratedMsg(s, listingId, action) ==
  Shown(s, IF action = "approve" THEN "Listing approved successfully!"
           ELSE "Listing rejected successfully!", "success", [t |-> "id", v |-> listingId])

\* the effect of AdminPanelPage: fetchData reads the users collection, and
\* nothing else, and ends the loading
fetchData(s) ==
  /\ AdminPanelRendered(s)
  /\ ~pageState[s].effectRun
  /\ pageState' = [pageState EXCEPT ![s].effectRun = TRUE]
  /\ UNCHANGED <<storeVars, appVars, messageBox, detailVars, ensure, subs,
                 lastError>>

\* querySnapshot.docs.map(doc => ({ id: doc.id, ...doc.data() })) of a
\* getDocs on the items collection, as the ids of the documents
ListingDocs(coll) == {id \in ItemIds : coll[id].exists}

\* handleModerateListing(listingId, action): the setDoc, the message and the
\* refresh of listings by getDocs; the message renders App again with a new
\* showMessageBox, on which the panel's effect depends
handleModerateListing(s, listingId, action) ==
  /\ AdminPanelRendered(s)
  /\ items' = [items EXCEPT ![listingId] = MergeStatus(@, ModeratedStatus(action))]
  /\ messageBox' = ModeratedMsg(s, listingId, action)
  /\ pageState' = [pageState EXCEPT ![s].listings = ListingDocs(items'),
                                    ![s].effectRun = FALSE]
  /\ UNCHANGED <<users, appVars, detailVars, ensure, subs, lastError>>

handleDeleteUser(s, userIdToDelete) ==
  /\ AdminPanelRendered(s)
  /\ users' = [users EXCEPT ![userIdToDelete] = NoDoc]
  /\ messageBox' = Shown(s, "User deleted successfully!", "success",
                         [t |-> "id", v |-> userIdToDelete])
  /\ pageState' = [pageState EXCEPT ![s].effectRun = FALSE]
  /\ UNCHANGED <<items, appVars, detailVars, ensure, subs, lastError>>

\* ------------------------------------------------------------------ Next
Next ==
  \E s \in Sessions :
    \/ \E page \in Visits(s), itemId \in ItemIds \cup {NullId} :
         handleNavigate(s, page, itemId)
    \/ \E user \in Accounts(s) \cup {NullUser} : onAuthStateChanged(s, user)
    \/ ensureProfileWrite(s)
    \/ dashboardProfileSnapshot(s)
    \/ fetchItemDetails(s)
    \/ handleSwapRequest(s)
    \/ confirmSwap(s)
    \/ cancelSwap(s)
    \/ handleRedeemPoints(s)
    \/ confirmRedeem(s)
    \/ cancelRedeem(s)
    \/ \E pointsValue \in PointsInputs : handleSubmit(s, pointsValue)
    \* the handler is given the id of a listing of the store
    \/ \E listingId \in ListingDocs(items), action \in {"approve", "reject"} :
         handleModerateListing(s, listingId, action)
    \/ \E userIdToDelete \in Users : handleDeleteUser(s, userIdToDelete)

Spec == Init /\ [][Next]_vars

\* The store outlives the program's sessions and the admin panel renders a
\* listing of any status (a status other than 'available' and 'rejected' in
\* orange, with both moderation buttons): the program started on a store
\* that already holds a listing, of any status of the listing life cycle.
Statuses == {"available", "pending_swap", "swapped", "redeemed", "rejected"}

InitAnyStore ==
  /\ items \in [ItemIds -> {NoDoc} \cup
                  [exists : {TRUE}, userId : {"u1"}, status : Statuses,
                   pointsValue : {Num(MaxPointsValue)}]]
  /\ users = [u \in Users |-> [exists |-> TRUE, points |-> MaxBalance]]
  /\ userId = [s \in Sessions |-> NullUser]
  /\ currentPage = [s \in Sessions |-> "landing"]
  /\ selectedItemId = [s \in Sessions |-> NullId]
  /\ messageBox = NULL
  /\ item = [s \in Sessions |-> NULL]
  /\ loading = [s \in Sessions |-> TRUE]
  /\ showConfirmSwap = [s \in Sessions |-> FALSE]
  /\ showConfirmRedeem = [s \in Sessions |-> FALSE]
  /\ ensure = [s \in Sessions |-> {}]
  /\ pageState = [s \in Sessions |-> InitPage]
  /\ subs = [s \in Sessions |-> NoSubs]
  /\ lastError = NULL

SpecAnyStore == InitAnyStore /\ [][Next]_vars

\* The pages with an effect of their own: the listeners of the browse page
\* and of the dashboard, the loading of the admin panel, and the handlers
\* that change what these pages show, started on a store that may hold a
\* listing already.
NextPages ==
  \E s \in Sessions :
    \/ \E page \in Visits(s) \ {"itemDetail"} : handleNavigate(s, page, NullId)
    \/ \E user \in Accounts(s) \cup {NullUser} : onAuthStateChanged(s, user)
    \/ fetchItems(s)
    \/ browseSnapshot(s)
    \/ fetchDashboardData(s)
    \/ \E pointsValue \in PointsInputs : handleSubmit(s, pointsValue)
    \/ fetchData(s)
    \/ \E listingId \in ListingDocs(items), action \in {"approve", "reject"} :
         handleModerateListing(s, listingId, action)

SpecPages == InitAnyStore /\ [][NextPages]_vars

\* The 'admin' page alone: every session goes to it, as whoever it is signed
\* in as, and the panel's effect and handlers run where the panel is mounted.
NextAdmin ==
  \E s \in Sessions :
    \/ \E page \in {"landing", "admin"} : handleNavigate(s, page, NullId)
    \/ \E user \in Accounts(s) \cup {NullUser} : onAuthStateChanged(s, user)
    \/ ensureProfileWrite(s)
    \/ fetchData(s)
    \/ \E listingId \in ListingDocs(items), action \in {"approve", "reject"} :
         handleModerateListing(s, listingId, action)
    \/ \E userIdToDelete \in Users : handleDeleteUser(s, userIdToDelete)

SpecAdmin == InitAnyStore /\ [][NextAdmin]_vars

\* The handlers that take a listing id, given any id: one with a document
\* behind it or one without.
NextAnyId ==
  \E s \in Sessions :
    \/ \E page \in Visits(s) \cap {"landing", "itemDetail", "admin"},
          itemId \in ItemIds \cup {NullId} : handleNavigate(s, page, itemId)
    \/ \E user \in Accounts(s) \cup {NullUser} : onAuthStateChanged(s, user)
    \/ fetchItemDetails(s)
    \/ handleSwapRequest(s)
    \/ handleRedeemPoints(s)
    \/ \E listingId \in ItemIds, action \in {"approve", "reject"} :
         handleModerateListing(s, listingId, action)

SpecAnyId == InitAnyStore /\ [][NextAnyId]_vars

\* One tab on a store that rejects calls or does not answer them.
FaultStep(s) ==
  \/ \E page \in {"landing", "itemDetail", "addItem", "dashboard"},
        itemId \in ItemIds \cup {NullId} : handleNavigate(s, page, itemId)
  \/ \E user \in Accounts(s) \cup {NullUser} : onAuthStateChanged(s, user)
  \/ \E user \in Accounts(s), code \in ErrorCodes :
       onAuthStateChangedRejected(s, user, code)
  \/ ensureProfileWrite(s)
  \/ \E code \in ErrorCodes : ensureProfileWriteRejected(s, code)
  \/ dashboardProfileSnapshot(s)
  \/ fetchItemDetails(s)
  \/ \E code \in ErrorCodes : fetchItemDetailsRejected(s, code)
  \/ handleRedeemPoints(s)
  \/ \E code \in ErrorCodes : handleRedeemPointsRejected(s, code)
  \/ \E pointsValue \in PointsInputs : handleSubmit(s, pointsValue)
  \/ \E pointsValue \in PointsInputs, code \in ErrorCodes :
       handleSubmitRejected(s, pointsValue, code)
  \/ \E pointsValue \in PointsInputs : handleSubmitPending(s, pointsValue)

NextFaults == FaultStep("s1")

SpecFaults == Init /\ [][NextFaults]_vars

\* The listing form of one tab: its image list and its submission.
NextForm ==
  \/ \E page \in {"landing", "addItem"} : handleNavigate("s1", page, NullId)
  \/ \E user \in Accounts("s1") \cup {NullUser} : onAuthStateChanged("s1", user)
  \/ ensureProfileWrite("s1")
  \/ \E files \in FileLists : handleImageUpload("s1", files)
  \/ \E indexToRemove \in 0 .. MaxImages - 1 : handleRemoveImage("s1", indexToRemove)
  \/ \E pointsValue \in PointsInputs : handleSubmit("s1", pointsValue)

SpecForm == Init /\ [][NextForm]_vars
\* =================================================================
\* The claims.  A step "reports" what it passes to showMessageBox, so
\* messageBox' is the result of the operation the step performs.
\* =================================================================
RedeemedText == "Successfully redeemed points for this item!"
SwapSentText == "Swap request sent successfully!"
NotEnoughText == "Not enough points to redeem this item."
OwnRedeemText == "You cannot redeem points for your own item."
OwnSwapText == "You cannot swap your own item."
RejectedText == "Listing rejected successfully!"

\* the latest report is a successful redeem / swap request made from a page
\* that shows listing id
LastRedeemOn(id) ==
  /\ messageBox # NULL
  /\ messageBox.message = RedeemedText
  /\ item[messageBox.session] # NULL
  /\ item[messageBox.session].id = id

LastSwapOn(id) ==
  /\ messageBox # NULL
  /\ messageBox.message = SwapSentText
  /\ item[messageBox.session] # NULL
  /\ item[messageBox.session].id = id

\* the latest report is a successful rejection of listing id
LastRejected(id) ==
  /\ messageBox # NULL
  /\ messageBox.message = RejectedText
  /\ messageBox.arg.v = id

\* this step takes pointsValue off the balance of user u
Debited(u, pointsValue) ==
  /\ u \in Users
  /\ pointsValue.t = "number"
  /\ users[u].exists
  /\ users'[u].exists
  /\ users'[u].points = users[u].points - pointsValue.v

\* session s is signed in as somebody other than the owner of the listing shown
NonOwner(s) == userId[s] \in Users /\ userId[s] # item[s].userId

\* the stored balance of the user of s does not cover pointsValue
Insufficient(s) ==
  \/ ~users[userId[s]].exists
  \/ users[userId[s]].points < item[s].pointsValue.v

\* -------------------------------------------------------------- C1
\* C1: redemption is atomic.  A redeem step that reports success has debited
\* the redeemer by the listing's pointsValue and set the listing's status to
\* 'redeemed'; a redeem step that reports anything else has changed neither
\* a balance nor a status.
C1_RedeemAtomic ==
  [][\A s \in Sessions :
       /\ confirmRedeem(s) =>
            IF messageBox'.type = "success"
            THEN /\ Debited(userId[s], item[s].pointsValue)
                 /\ items'[item[s].id].status = "redeemed"
            ELSE UNCHANGED storeVars
       /\ handleRedeemPoints(s) => UNCHANGED storeVars]_vars

\* -------------------------------------------------------------- C2
\* C2: in every reachable state every stored points balance is an integer
\* that is at least 0.
C2_BalanceNonNegative ==
  \A u \in Users : users[u].exists => (users[u].points \in Int /\ users[u].points >= 0)

\* a redemption of a positive pointsValue has been reported to a signed-in
\* user whose profile is stored
C2_Witness ==
  /\ messageBox = RedeemedMsg("s1", Num(MaxPointsValue))
  /\ userId["s1"] \in Users
  /\ users[userId["s1"]].exists
  /\ \E u \in Users : ~users[u].exists

\* -------------------------------------------------------------- C3
Edges ==
  {<<"available", "pending_swap">>, <<"pending_swap", "swapped">>,
   <<"pending_swap", "available">>, <<"available", "redeemed">>,
   <<"available", "rejected">>, <<"rejected", "available">>}

\* C3: a listing's status changes only along an edge of Edges, and a
\* moderation that asks for any other change reports an error and leaves the
\* listing as it was.
C3_OnlyLegalTransitions ==
  [][\A id \in ItemIds :
       /\ (items[id].exists /\ items'[id].exists
            /\ items'[id].status # items[id].status)
          => <<items[id].status, items'[id].status>> \in Edges
       /\ \A s \in Sessions, action \in {"approve", "reject"} :
            (/\ handleModerateListing(s, id, action)
             /\ items[id].exists
             /\ <<items[id].status, ModeratedStatus(action)>> \notin Edges)
            => (messageBox'.type = "error" /\ items'[id] = items[id])]_vars

\* -------------------------------------------------------------- C4
\* C4: redeem is idempotent.  When the latest report is a successful redeem
\* of a listing, a redeem of the same listing confirmed next does not report
\* success and debits nobody.
C4_RedeemIdempotent ==
  [][\A s \in Sessions :
       (confirmRedeem(s) /\ LastRedeemOn(item[s].id))
       => (messageBox'.type # "success" /\ users' = users)]_vars

\* -------------------------------------------------------------- C5
\* C5: operations on one listing are serialized.  When the latest report is a
\* successful rejection of a listing, a redeem of that listing confirmed next
\* (its checks made before the rejection) loses: it does not report success.
C5_SerializedPerListing ==
  [][\A s \in Sessions :
       (confirmRedeem(s) /\ LastRejected(item[s].id))
       => messageBox'.type # "success"]_vars

\* -------------------------------------------------------------- C6
\* C6: at most one swap request is open per listing.  When the latest report
\* is a successful swap request for a listing (nothing resolves it), a swap
\* request for the same listing confirmed next does not report success.
C6_OneOpenSwapRequest ==
  [][\A s \in Sessions :
       (confirmSwap(s) /\ LastSwapOn(item[s].id))
       => messageBox'.type # "success"]_vars

\* -------------------------------------------------------------- C7
\* every precondition of redeem holds in the store for the user of session s
RedeemPreconditions(s) ==
  /\ items[item[s].id].exists
  /\ items[item[s].id].status = "available"
  /\ items[item[s].id].pointsValue.t = "number"
  /\ items[item[s].id].pointsValue.v > 0
  /\ NonOwner(s)
  /\ users[userId[s]].exists
  /\ users[userId[s]].points >= items[item[s].id].pointsValue.v

\* C7: a confirmed redeem whose preconditions all hold reports success, sets
\* the listing's status to 'redeemed' and leaves the redeemer with the old
\* balance minus pointsValue.
C7_RedeemEffect ==
  [][\A s \in Sessions :
       (confirmRedeem(s) /\ RedeemPreconditions(s))
       => /\ messageBox'.type = "success"
          /\ items'[item[s].id].status = "redeemed"
          /\ Debited(userId[s], items[item[s].id].pointsValue)]_vars

\* -------------------------------------------------------------- C8
\* handleRedeemPoints refuses for lack of points: the error is shown, the
\* confirmation is not opened, the store is untouched
RefusedForFunds(s) ==
  /\ messageBox' = Shown(s, NotEnoughText, "error", NULL)
  /\ showConfirmRedeem'[s] = showConfirmRedeem[s]
  /\ UNCHANGED storeVars

C9_OwnerCannotRedeem ==
  [][\A s \in Sessions :
       (handleRedeemPoints(s) /\ userId[s] \in Users /\ userId[s] = item[s].userId)
       => /\ messageBox' = Shown(s, OwnRedeemText, "info", NULL)
          /\ showConfirmRedeem'[s] = showConfirmRedeem[s]
          /\ UNCHANGED storeVars]_vars

\* the refusal has been shown to an owner who could have paid
C9_Witness ==
  /\ messageBox = Shown("s1", OwnRedeemText, "info", NULL)
  /\ ItemViewRendered("s1")
  /\ userId["s1"] = item["s1"].userId
  /\ Truthy(item["s1"].pointsValue)
  /\ users[userId["s1"]].exists
  /\ users[userId["s1"]].points >= item["s1"].pointsValue.v
  /\ ~showConfirmRedeem["s1"]

\* -------------------------------------------------------------- C10
\* C10: handleSwapRequest called by the listing's owner shows the own-item
\* refusal, does not open the swap confirmation, reports no success and
\* changes nothing in the store.
C10_OwnerCannotSwap ==
  [][\A s \in Sessions :
       (handleSwapRequest(s) /\ userId[s] \in Users /\ userId[s] = item[s].userId)
       => /\ messageBox' = Shown(s, OwnSwapText, "info", NULL)
          /\ showConfirmSwap'[s] = showConfirmSwap[s]
          /\ UNCHANGED storeVars]_vars

\* the refusal has been shown to the owner, and no confirmation is open
C10_Witness ==
  /\ messageBox = Shown("s1", OwnSwapText, "info", NULL)
  /\ ItemViewRendered("s1")
  /\ userId["s1"] = item["s1"].userId
  /\ items[item["s1"].id].status = "available"
  /\ ~showConfirmSwap["s1"]

\* -------------------------------------------------------------- C11
NotAvailableText == "This item is not available for point redemption."

\* x is a number greater than 0
Positive(x) == x.t = "number" /\ x.v > 0

\* C11: a redeem asked by a signed-in non-owner for a listing whose
\* pointsValue is absent or not positive (null, 0, negative) is answered with
\* the not-available message, opens no confirmation and changes no listing
\* and no balance; a redeem reports success only for a listing whose
\* pointsValue is a number greater than 0.
C11_RedeemNeedsPositiveValue ==
  [][\A s \in Sessions :
       /\ (handleRedeemPoints(s) /\ NonOwner(s) /\ ~Positive(item[s].pointsValue))
          => /\ messageBox' = Shown(s, NotAvailableText, "info", NULL)
             /\ showConfirmRedeem'[s] = showConfirmRedeem[s]
             /\ UNCHANGED storeVars
       /\ (confirmRedeem(s) /\ messageBox'.type = "success")
          => Positive(item[s].pointsValue)]_vars

\* -------------------------------------------------------------- C12
\* this step of session s refuses: a message that is not a success is shown
\* by s, no confirmation opens or closes, the store is untouched
Refused(s) ==
  /\ messageBox'.session = s
  /\ messageBox'.type \in {"error", "info"}
  /\ UNCHANGED <<showConfirmSwap, showConfirmRedeem, storeVars>>

\* C12: rejecting an 'available' listing leaves it 'rejected'; and while its
\* stored status is 'rejected', every redeem or swap request made from a page
\* that offers the two buttons (a page loaded before the rejection included)
\* is refused, and none reports success.
C12_RejectedBlocksRequests ==
  [][\A s \in Sessions :
       /\ \A id \in ItemIds :
            (handleModerateListing(s, id, "reject") /\ items[id].status = "available")
            => items'[id].status = "rejected"
       /\ (ActionButtonsRendered(s) /\ items[item[s].id].status = "rejected")
          => /\ (handleRedeemPoints(s) \/ handleSwapRequest(s)) => Refused(s)
             /\ (confirmRedeem(s) \/ confirmSwap(s))
                => messageBox'.type # "success"]_vars

\* -------------------------------------------------------------- C13
\* C13: approve sets 'available' from 'pending_swap' or 'rejected' only, and
\* reject sets 'rejected' from 'available' only; a moderation of a listing in
\* any other status reports an error and leaves the listing as it was.
C13_ModerateGuarded ==
  [][\A s \in Sessions, id \in ItemIds, action \in {"approve", "reject"} :
       handleModerateListing(s, id, action)
       => IF \/ action = "approve" /\ items[id].status \in {"pending_swap", "rejected"}
             \/ action = "reject" /\ items[id].status = "available"
          THEN items'[id].status = ModeratedStatus(action)
          ELSE messageBox'.type = "error" /\ items'[id] = items[id]]_vars

\* -------------------------------------------------------------- C15
\* the store no longer allows the redeem that session s is about to confirm
RedeemNoLongerAllowed(s) ==
  \/ items[item[s].id].status # "available"
  \/ userId[s] \notin Users
  \/ ~users[userId[s]].exists
  \/ users[userId[s]].points < item[s].pointsValue.v

\* C15: the commit decides.  A redeem or a swap request whose item data was
\* read while the listing was 'available' reports no success when, as it is
\* confirmed, the stored status is no longer 'available' or (for a redeem)
\* the redeemer's stored balance no longer covers the pointsValue.
C15_CommitDecides ==
  [][\A s \in Sessions :
       /\ (confirmRedeem(s) /\ item[s].status = "available"
             /\ RedeemNoLongerAllowed(s))
          => messageBox'.type # "success"
       /\ (confirmSwap(s) /\ item[s].status = "available"
             /\ items[item[s].id].status # "available")
          => messageBox'.type # "success"]_vars

C16_SwapRequestCreated ==
  [][\A s \in Sessions :
       (confirmSwap(s) /\ messageBox'.type = "success")
       => /\ \E r \in swaps :
               /\ r.listingId = item[s].id
               /\ r.requesterId = userId[s]
               /\ r.status = "open"
          /\ items' = items
          /\ users' = users]_vars

\* -------------------------------------------------------------- C17
\* C17: an account comes into the store with balance 0, and the balance of
\* an account that is in the store before and after a step changes only in
\* a confirmed redeem that debits it; a profile-ensuring write in particular
\* leaves the balance of an existing account as it was.
C17_BalanceFrame ==
  [][\A u \in Users :
       /\ (~users[u].exists /\ users'[u].exists) => users'[u].points = 0
       /\ (users[u].exists /\ users'[u].exists
             /\ users'[u].points # users[u].points)
          => \E s \in Sessions :
               /\ confirmRedeem(s)
               /\ userId[s] = u
               /\ Debited(u, item[s].pointsValue)]_vars

\* an account was created with balance 0 by one profile-ensuring write while
\* the write of the other path is still in flight against it
C17_Witness ==
  /\ userId["s1"] \in Users
  /\ users[userId["s1"]].exists
  /\ users[userId["s1"]].points = 0
  /\ Cardinality(ensure["s1"]) = 1
  /\ \E u \in Users : users[u].exists /\ users[u].points > 0

\* -------------------------------------------------------------- C18
ListedText == "Item listed successfully!"

\* C18: a listing that enters the store has status 'available' and the
\* userId of the signed-in user of the session whose form was submitted.
C18_CreatedAvailableByOwner ==
  [][\A id \in ItemIds :
       (~items[id].exists /\ items'[id].exists)
       => /\ items'[id].status = "available"
          /\ \E s \in Sessions :
               /\ currentPage[s] = "addItem"
               /\ userId[s] \in Users
               /\ items'[id].userId = userId[s]
               /\ messageBox' = Shown(s, ListedText, "success", NULL)]_vars

\* a listing has just been submitted by the user signed in on s1
C18_Witness ==
  /\ messageBox = Shown("s1", ListedText, "success", NULL)
  /\ items["i1"].exists
  /\ items["i1"].status = "available"
  /\ items["i1"].userId = userId["s1"]
  /\ currentPage["s1"] = "dashboard"

\* -------------------------------------------------------------- C19
\* C19: the pointsValue of every stored listing is null or an integer that
\* is at least 0.
C19_PointsValueNonNegative ==
  \A id \in ItemIds :
    items[id].exists
    => \/ items[id].pointsValue.t = "null"
       \/ /\ items[id].pointsValue.t = "number"
          /\ items[id].pointsValue.v \in Nat

\* -------------------------------------------------------------- C20
UserDeletedText == "User deleted successfully!"

\* C20: a listing that is in the store stays in the store, with the same
\* userId and the same pointsValue, whatever step is taken (moderation and
\* user deletion included); only its status may change.
C20_ListingsKept ==
  [][\A id \in ItemIds :
       items[id].exists
       => /\ items'[id].exists
          /\ items'[id].userId = items[id].userId
          /\ items'[id].pointsValue = items[id].pointsValue]_vars

\* a listing has been rejected and its owner's profile has just been deleted:
\* the listing is there, owner and pointsValue as submitted
C20_Witness ==
  /\ items["i1"].exists
  /\ items["i1"].status = "rejected"
  /\ items["i1"].userId \in Users
  /\ items["i1"].pointsValue = Num(MaxPointsValue)
  /\ messageBox = Shown("s2", UserDeletedText, "success",
                        [t |-> "id", v |-> items["i1"].userId])
  /\ ~users[items["i1"].userId].exists

\* -------------------------------------------------------------- C26
\* C26: in every state a session has a selected item id exactly when it is on
\* the item detail page, and a handleNavigate to 'itemDetail' leaves the id it
\* was passed as the selected one, so that the detail page's effect, which
\* runs only with an id, can load the item.
C26_SelectedIdFollowsPage ==
  [][\A s \in Sessions :
       /\ selectedItemId'[s] # NullId <=> currentPage'[s] = "itemDetail"
       /\ currentPage'[s] # currentPage[s] =>
            \A itemId \in ItemIds \cup {NullId} :
              handleNavigate(s, "itemDetail", itemId)
                => (selectedItemId'[s] = itemId /\ itemId # NullId)]_vars

\* a session on the detail page of i1, which it has loaded
C26_Witness ==
  /\ currentPage["s1"] = "itemDetail"
  /\ selectedItemId["s1"] = "i1"
  /\ ~loading["s1"]

\* -------------------------------------------------------------- C30
LogInTexts ==
  {"You must be logged in to list an item.", "Please log in to request a swap.",
   "Please log in to redeem points."}

\* C30: with no user signed in, handleSubmit, handleSwapRequest and
\* handleRedeemPoints leave the store as it is, show one of the log-in
\* messages (never a success) and take the session to the 'auth' page; and no
\* listing of the store has null as its owner.
C30_SignedOutDoesNothing ==
  [][/\ \A s \in Sessions :
          (/\ userId[s] = NullUser
           /\ currentPage[s] \in {"addItem", "itemDetail"}
           /\ \/ \E pointsValue \in PointsInputs : handleSubmit(s, pointsValue)
              \/ handleSwapRequest(s)
              \/ handleRedeemPoints(s))
            => /\ UNCHANGED storeVars
               /\ messageBox'.session = s
               /\ messageBox'.message \in LogInTexts
               /\ messageBox'.type # "success"
               /\ currentPage'[s] = "auth"
     /\ \A id \in ItemIds : items'[id].exists => items'[id].userId # NullUser]_vars

\* a signed-out session has submitted the listing form: it is on 'auth' with
\* the log-in message and the store holds no listing
C30_Witness ==
  /\ userId["s1"] = NullUser
  /\ currentPage["s1"] = "auth"
  /\ messageBox = Shown("s1", "You must be logged in to list an item.", "error", NULL)
  /\ \A id \in ItemIds : ~items[id].exists

\* -------------------------------------------------------------- C29
\* C29: a snapshot delivered to the browse page leaves it listing exactly the
\* listings that are 'available' in the store at that moment: every listing
\* shown is 'available', and no listing of another status ('rejected',
\* 'redeemed', 'swapped', 'pending_swap') is shown.
C29_BrowseShowsAvailable ==
  [][\A s \in Sessions :
       browseSnapshot(s) =>
         \A id \in ItemIds :
           id \in pageState'[s].items
             <=> (items[id].exists /\ items[id].status = "available")]_vars

\* the listing has been rejected and the browse page, with its listener
\* registered, shows no listing
C29_Witness ==
  /\ LastRejected("i1")
  /\ items["i1"].status = "rejected"
  /\ currentPage["s1"] = "browse"
  /\ pageState["s1"].effectRun
  /\ pageState["s1"].items = {}

\* -------------------------------------------------------------- C28
\* C28: when the admin panel finishes loading, its Manage Listings list holds
\* every listing of the store.
C28_AllListingsShown ==
  [][\A s \in Sessions :
       fetchData(s) => pageState'[s].listings = ListingDocs(items')]_vars

\* -------------------------------------------------------------- C24
\* C24: the listeners a session has registered and not released are those of
\* the page it is on: at most the one item listener while on the browse page,
\* at most the profile and the listings listener while on the dashboard, and
\* none of a page that has been left.
C24_ListenersReleased ==
  \A s \in Sessions :
    /\ subs[s].browse <= (IF currentPage[s] = "browse" THEN 1 ELSE 0)
    /\ subs[s].dashboard <= (IF currentPage[s] = "dashboard" THEN 2 ELSE 0)

\* -------------------------------------------------------------- C25
\* renderPage case 'admin' for a session that is not signed in as an
\* administrator: the Access Denied paragraph
AccessDenied(s) ==
  currentPage[s] = "admin" /\ (userId[s] = NullUser \/ ~IsAdmin(userId[s]))

\* C25: the admin panel's load, a moderation and a user deletion are steps of
\* a session that is on the 'admin' page signed in with a user id containing
\* 'admin'; a session that is on 'admin' otherwise is shown Access Denied, has
\* no panel state, and no step of it reads or writes the store: a listing's
\* status changes or a profile is deleted only where some session is an
\* administrator on the 'admin' page.
C25_AdminOnly ==
  [][/\ \A s \in Sessions :
          (\/ fetchData(s)
           \/ \E id \in ItemIds, action \in {"approve", "reject"} :
                handleModerateListing(s, id, action)
           \/ \E u \in Users : handleDeleteUser(s, u))
            => (currentPage[s] = "admin" /\ userId[s] # NullUser /\ IsAdmin(userId[s]))
     /\ \A s \in Sessions : AccessDenied(s)' => pageState'[s] = InitPage
     /\ (\/ \E id \in ItemIds :
              items[id].exists /\ items'[id].exists
                /\ items'[id].status # items[id].status
         \/ \E u \in Users : users[u].exists /\ ~users'[u].exists)
          => \E s \in Sessions : ~AccessDenied(s) /\ currentPage[s] = "admin"]_vars

\* the administrator has rejected the listing in one tab while the other tab,
\* signed in as u1, is on 'admin' with Access Denied
C25_Witness ==
  /\ LastRejected("i1")
  /\ messageBox.session = "s2"
  /\ userId["s1"] = "u1"
  /\ AccessDenied("s1")

\* -------------------------------------------------------------- C27
\* imgs without its element number i (from 1), the others in their order
WithoutImage(imgs, i) ==
  [j \in 1 .. Len(imgs) - 1 |-> IF j < i THEN imgs[j] ELSE imgs[j + 1]]

\* C27: the form never holds more than 5 images; an upload that would bring
\* the total above 5 shows the error and leaves the list as it was, any other
\* upload appends its files; removing index i takes out exactly that image
\* and keeps the others in order.
C27_AtMostFiveImages ==
  [][\A s \in Sessions :
       LET imgs == pageState[s].images IN
       /\ Len(pageState'[s].images) <= 5
       /\ \A files \in FileLists :
            handleImageUpload(s, files) =>
              IF Len(files) + Len(imgs) > 5
              THEN /\ pageState'[s].images = imgs
                   /\ messageBox' = Shown(s, "You can upload a maximum of 5 images.",
                                          "error", NULL)
              ELSE pageState'[s].images = imgs \o files
       /\ \A i \in 0 .. 4 :
            handleRemoveImage(s, i) => pageState'[s].images = WithoutImage(imgs, i + 1)]_vars

\* the form holds 5 images and the last upload was refused
C27_Witness ==
  /\ currentPage["s1"] = "addItem"
  /\ Len(pageState["s1"].images) = 5
  /\ messageBox = Shown("s1", "You can upload a maximum of 5 images.", "error", NULL)

C22_NoErrorSwallowed ==
  [][lastError' # lastError =>
       /\ messageBox' # NULL
       /\ messageBox'.session = lastError'.session
       /\ messageBox'.type = "error"
       /\ messageBox'.arg = [t |-> "code", v |-> lastError'.code]]_vars

\* -------------------------------------------------------------- C23
\* the step of session s that ends its pending listing creation with an
\* error message, the loading cleared
EndsWithError(s) ==
  /\ FaultStep(s)
  /\ pageState'[s].pending = NULL
  /\ messageBox' # NULL
  /\ messageBox'.session = s
  /\ messageBox'.type = "error"

\* C23: an operation that has started and that the store does not answer can
\* always end, by a step of its own session, with an error message and the
\* loading cleared.
C23_NoIndefiniteBlock ==
  \A s \in Sessions : pageState[s].pending # NULL => ENABLED EndsWithError(s)

====
